---- MODULE Spec2Model ----
(***************************************************************************)
(* FontToBin.c: a 1-bit-per-pixel bitmap of a 128-glyph font sheet         *)
(* (64 glyphs per row, 2 rows) is read into a buffer of 32-bit words and   *)
(* written out glyph by glyph as lines of '0'/'1' characters.              *)
(*                                                                         *)
(* A uint32_t (and the bit pattern of a 32-bit int) is modelled as the set *)
(* of the positions of its 1 bits, position 0 being the least significant  *)
(* bit: the value is the sum of 2^b over the set.  TLC's integers are 32   *)
(* bit signed, so the value itself cannot be held as a number; every       *)
(* operation of the code is done on the bit set with the width kept at 32. *)
(***************************************************************************)
EXTENDS Integers, Sequences, FiniteSets

(* ------------------------------ bounds -------------------------------- *)

\* Tallest image drawn (imageHeight ranges over 2..MaxImageHeight).
MaxImageHeight == 4

\* Number of different pixel contents drawn for every geometry.
NumSeeds == 2

(* ------------------------- program constants -------------------------- *)

\* "Characters are not to be wider than 32 pixels."
MaxCharWidth == 32

\* Glyphs on one row of the font sheet (ASCII % 64, imageWidth / 64).
GlyphsPerRow == 64

\* Mutant: the loop bound the header comment describes, i <= 128.
NumGlyphsInclusive == 128 + 1

\* for(i = 0; i < 128; i++)
NumGlyphs == 128

\* Width of uint32_t and of int on the machines the program is built for.
WordBits == 32

(* ------------------------ 32-bit word arithmetic ---------------------- *)

BitPos == 0 .. (WordBits - 1)

\* x >> n on a uint32_t, 0 <= n < 32
Shr(x, n) == {b - n : b \in {c \in x : c >= n}}

\* x << n on a uint32_t, 0 <= n < 32: the bits shifted past bit 31 are lost.
\* The code also shifts ints into the sign bit, ((1 << k) - 1) << (32 - k);
\* the compilers the program is built with define that as the same bit
\* pattern.
Shl(x, n) == {b + n : b \in {c \in x : c + n < WordBits}}

And(x, y) == x \cap y

Or(x, y) == x \cup y

\* The smallest element of a non-empty set of bit positions.
LowestBit(x) == CHOOSE b \in x : \A c \in x : b <= c

\* x - 1 in 32 bits (two's complement, wrapping).
Dec(x) ==
    IF x = {} THEN BitPos
    ELSE LET z == LowestBit(x) IN (x \ {z}) \cup (0 .. (z - 1))

\* The outcomes of the int expression 1 << n.  For n >= 32 the shift is
\* undefined: a build whose shift instruction takes the count modulo 32
\* (x86) yields 1 << (n % 32), a build whose shift saturates (ARM) yields 0.
\* For n = 31 the result is the bit pattern 0x80000000, and the - 1 that
\* follows (Dec) gives 0x7FFFFFFF, as those builds compute it.
Targets == {"count_mod_32", "count_saturates"}

IntShlOne(n, tgt) ==
    IF n < WordBits THEN {n}
    ELSE IF tgt = "count_mod_32" THEN {n % WordBits}
    ELSE {}

(* ----------------------------- input file ----------------------------- *)

\* Offsets of the header fields the program reads.
OffPixelDataOffset == 10
OffWidth == 18
OffHeight == 22

\* The pixel-data offsets the drawn files declare (14 byte file header,
\* 40 byte DIB header, 8 byte palette).
HeaderOffsets == {62}

\* The bitmap files drawn: one per geometry and pixel content.
Fonts ==
    [width  : {GlyphsPerRow * w : w \in 1 .. MaxCharWidth},
     height : 2 .. MaxImageHeight,
     offset : HeaderOffsets,
     seed   : 0 .. (NumSeeds - 1)]

\* Byte k (0 = least significant) of a non-negative int.
IntByte(v, k) == (v \div (256 ^ k)) % 256

\* The pixel byte at position p of the pixel data: a fixed scramble of the
\* position, so that neighbouring bytes, words and rows all differ.
PixelByte(seed, p) == (p * p * 3 + p * (37 + 64 * seed) + 101 * seed + 89) % 256

\* The byte at position pos of the file f.
FileByte(f, pos) ==
    IF pos \in OffPixelDataOffset .. (OffPixelDataOffset + 3)
      THEN IntByte(f.offset, pos - OffPixelDataOffset)
    ELSE IF pos \in OffWidth .. (OffWidth + 3)
      THEN IntByte(f.width, pos - OffWidth)
    ELSE IF pos \in OffHeight .. (OffHeight + 3)
      THEN IntByte(f.height, pos - OffHeight)
    ELSE IF pos >= f.offset THEN PixelByte(f.seed, pos - f.offset)
    ELSE 0

\* fread(&x, 4, 1, font) into an int on a little-endian machine, for the
\* small non-negative values of the header.
FreadInt(f, pos) ==
    FileByte(f, pos) + 256 * FileByte(f, pos + 1)
      + 65536 * FileByte(f, pos + 2) + 16777216 * FileByte(f, pos + 3)

\* The 1 bits of a byte.
ByteBits(v) == {b \in 0 .. 7 : (v \div (2 ^ b)) % 2 = 1}

\* fread(&w, sizeof(uint32_t), 1, font) on a little-endian machine: the
\* first byte of the file lands in bits 7..0.
FreadWord(f, pos) ==
    UNION {{8 * k + b : b \in ByteBits(FileByte(f, pos + k))} : k \in 0 .. 3}

(* --------------------------- pure functions --------------------------- *)

\* Mutant: the two masks of the middle bytes exchanged.
swapEndian32MasksExchanged(x) ==
    Or(Or(Shr(x, 24), And(Shl(x, 8), 8 .. 15)),
       Or(And(Shr(x, 8), 16 .. 23), Shl(x, 24)))

\* *x = (*x >> 24) | ((*x << 8) & 0x00FF0000) | ((*x >> 8) & 0x0000FF00) | (*x << 24)
swapEndian32(x) ==
    Or(Or(Shr(x, 24), And(Shl(x, 8), 16 .. 23)),
       Or(And(Shr(x, 8), 8 .. 15), Shl(x, 24)))

\* fprintf(bin, "%d", (n >> i) & 1)
BinaryDigit(n, i) == IF And(Shr(n, i), {0}) = {} THEN "0" ELSE "1"

\* Mutant: the digits written least significant bit first.
toBinaryLsbFirst(n, width) ==
    [t \in 1 .. width |-> BinaryDigit(n, t - 1)] \o <<"\n">>

\* toBinary(n, width): the characters appended to the output stream,
\* for(i = width-1; i >= 0; i--), then the newline.
toBinary(n, width) ==
    [t \in 1 .. width |-> BinaryDigit(n, width - t)] \o <<"\n">>

\* Marks a word that has been allocated and not written.
Uninit == {-1}

\* data[idx]
Deref(data, idx) == IF idx \in DOMAIN data THEN data[idx] ELSE Uninit

\* Mutant: the column taken from ASCII without the % 64.
FirstBitNoModulo(ASCII, cw, ch, dpl) ==
    (ASCII * cw) + (IF ASCII < GlyphsPerRow THEN 0 ELSE ch * dpl * WordBits)

\* int bits = ((ASCII % 64) * charWidth) + (ASCII < 64 ? 0 : charHeight * dwordsPerLine * 32)
FirstBit(ASCII, cw, ch, dpl) ==
    ((ASCII % GlyphsPerRow) * cw)
      + (IF ASCII < GlyphsPerRow THEN 0 ELSE ch * dpl * WordBits)

\* Mutant: the advance counted in bytes of 8 bits instead of words of 32.
NextLineByBytes(bits, dpl) == bits + (dpl * 8)

\* bits += (dwordsPerLine * 32)
NextLine(bits, dpl) == bits + (dpl * WordBits)

\* onBoundary = ((offset + charWidth) > 32 ? 1 : 0)
OnBoundary(offset, cw) == (offset + cw) > WordBits

\* The body of the loop of the single-word path.
SingleWord(data, dword, offset, cw, tgt) ==
    LET mask == Dec(IntShlOne(cw, tgt))
    IN  And(Shr(Deref(data, dword), WordBits - cw - offset), mask)

\* Mutant: the second fragment shifted down as if it were charWidth bits.
TwoWordsShortShift(data, dword, offset, cw, tgt) ==
    LET k     == cw - (WordBits - offset)
        mask1 == Dec(IntShlOne(WordBits - offset, tgt))
        tmp1  == And(Deref(data, dword), mask1)
        mask2 == Shl(Dec(IntShlOne(k, tgt)), WordBits - k)
        tmp2  == And(Deref(data, dword + 1), mask2)
    IN  Or(Shl(tmp1, k), Shr(tmp2, WordBits - cw))

\* The body of the loop of the path for a glyph split across two words.
TwoWords(data, dword, offset, cw, tgt) ==
    LET k     == cw - (WordBits - offset)
        mask1 == Dec(IntShlOne(WordBits - offset, tgt))
        tmp1  == And(Deref(data, dword), mask1)
        mask2 == Shl(Dec(IntShlOne(k, tgt)), WordBits - k)
        tmp2  == And(Deref(data, dword + 1), mask2)
    IN  Or(Shl(tmp1, k), Shr(tmp2, WordBits - k))

\* The indices of data one iteration reads: data[dword], and data[dword+1]
\* on the two-word path.
WordsRead(dword, onBoundary) ==
    IF onBoundary THEN {dword, dword + 1} ELSE {dword}

\* The two for loops of assembleCharacter, from iteration n on: acc holds
\* character (the row buffer), the pairs <<iteration, index of data read>>
\* and the indices of character written so far.
RECURSIVE AssembleLoop(_, _, _, _, _, _, _, _, _)
AssembleLoop(data, cw, ch, dpl, tgt, onBoundary, n, bits, acc) ==
    IF n >= ch THEN acc
    ELSE LET dword  == bits \div WordBits
             offset == bits % WordBits
             row    == IF onBoundary
                         THEN TwoWords(data, dword, offset, cw, tgt)
                         ELSE SingleWord(data, dword, offset, cw, tgt)
         IN  AssembleLoop(data, cw, ch, dpl, tgt, onBoundary, n + 1,
                          NextLine(bits, dpl),
                          [character |-> IF n \in DOMAIN acc.character
                                           THEN [acc.character EXCEPT ![n] = row]
                                           ELSE acc.character,
                           reads  |-> acc.reads \cup
                                       {<<n, w>> : w \in WordsRead(dword, onBoundary)},
                           writes |-> acc.writes \cup {n}])

\* assembleCharacter(data, ASCII, charWidth, charHeight, dwordsPerLine, character)
assembleCharacter(data, ASCII, cw, ch, dpl, chr, tgt) ==
    LET bits == FirstBit(ASCII, cw, ch, dpl)
    IN  AssembleLoop(data, cw, ch, dpl, tgt, OnBoundary(bits % WordBits, cw),
                     0, bits, [character |-> chr, reads |-> {}, writes |-> {}])

(* ------------------------------- state -------------------------------- *)

VARIABLES
    font,           \* the bitmap file given on the command line
    target,         \* what the build makes of a shift by 32 or more
    pc,             \* where main is
    acquired,       \* per resource, how often it was opened or allocated
    released,       \* per resource, how often it was closed or freed
    fpos,           \* the position of the input stream
    pixelDataOffset, imageWidth, imageHeight,
    charWidth, charHeight, bytesPerLine, dwordsPerLine,
    i,              \* the loop variable of main's outer loops
    charData,       \* the pixel buffer
    character,      \* the row buffer of one glyph
    reads, writes,  \* <<scanline, index of charData read>> and indices of
                    \* character written by the last assembleCharacter
    rows,           \* per character[j] handed to toBinary: glyph, j, value
    out,            \* the characters written to font.bin
    failure,        \* which failure ended the run
    status          \* the value main returned, -1 while it runs

vars == <<font, target, pc, acquired, released, fpos, pixelDataOffset,
          imageWidth, imageHeight, charWidth, charHeight, bytesPerLine,
          dwordsPerLine, i, charData, character, reads, writes, rows, out,
          failure, status>>

geometry == <<pixelDataOffset, imageWidth, imageHeight, charWidth,
              charHeight, bytesPerLine, dwordsPerLine>>

Resources == {"font", "bin", "charData", "character"}

Init ==
    /\ font \in Fonts
    /\ target \in Targets
    /\ pc = "open_font"
    /\ acquired = [r \in Resources |-> 0]
    /\ released = [r \in Resources |-> 0]
    /\ fpos = 0
    /\ pixelDataOffset = 0
    /\ imageWidth = 0
    /\ imageHeight = 0
    /\ charWidth = 0
    /\ charHeight = 0
    /\ bytesPerLine = 0
    /\ dwordsPerLine = 0
    /\ i = 0
    /\ charData = <<>>
    /\ character = <<>>
    /\ reads = {}
    /\ writes = {}
    /\ rows = <<>>
    /\ out = <<>>
    /\ failure = "none"
    /\ status = -1

(* ------------------------------ actions ------------------------------- *)

Acquire(r) == acquired' = [acquired EXCEPT ![r] = @ + 1]

\* fclose / free of each resource of rs.
Release(rs) == released' = [r \in Resources |-> released[r] + (IF r \in rs THEN 1 ELSE 0)]

\* return code, after the failure named
Return(code, why) ==
    /\ pc' = "exit"
    /\ status' = code
    /\ failure' = why

\* if(!(font = fopen(argv[1], "r"))) ... return 1
OpenFont ==
    /\ pc = "open_font"
    /\ \/ /\ Acquire("font")
          /\ pc' = "open_bin"
          /\ UNCHANGED <<status, failure>>
       \/ /\ Return(1, "open_font")
          /\ UNCHANGED acquired
    /\ UNCHANGED <<font, target, released, fpos, geometry, i, charData,
                   character, reads, writes, rows, out>>

\* Mutant: the failure to create font.bin reported with status 0.
OpenBinReturnsZero ==
    /\ pc = "open_bin"
    /\ \/ /\ Acquire("bin")
          /\ pc' = "header"
          /\ UNCHANGED <<released, status, failure>>
       \/ /\ Release({"font"})
          /\ Return(0, "open_bin")
          /\ UNCHANGED acquired
    /\ UNCHANGED <<font, target, fpos, geometry, i, charData, character,
                   reads, writes, rows, out>>

\* if(!(bin = fopen("font.bin", "w"))) ... fclose(font); return 1
OpenBin ==
    /\ pc = "open_bin"
    /\ \/ /\ Acquire("bin")
          /\ pc' = "header"
          /\ UNCHANGED <<released, status, failure>>
       \/ /\ Release({"font"})
          /\ Return(1, "open_bin")
          /\ UNCHANGED acquired
    /\ UNCHANGED <<font, target, fpos, geometry, i, charData, character,
                   reads, writes, rows, out>>

\* The fseek/fread of the three header fields and the derived geometry.
ReadHeader ==
    /\ pc = "header"
    /\ pixelDataOffset' = FreadInt(font, OffPixelDataOffset)
    /\ imageWidth' = FreadInt(font, OffWidth)
    /\ imageHeight' = FreadInt(font, OffWidth + 4)
    /\ fpos' = OffWidth + 8
    /\ charWidth' = imageWidth' \div GlyphsPerRow
    /\ charHeight' = imageHeight' \div 2
    /\ bytesPerLine' = (charWidth' * GlyphsPerRow) \div 8
    /\ dwordsPerLine' = bytesPerLine' \div 4
    /\ pc' = "alloc_data"
    /\ UNCHANGED <<font, target, acquired, released, i, charData, character,
                   reads, writes, rows, out, failure, status>>

\* charData = malloc(sizeof(uint32_t) * dwordsPerLine * imageHeight), then
\* fseek(font, pixelDataOffset, SEEK_SET) and the start of the loading loop.
AllocCharData ==
    /\ pc = "alloc_data"
    /\ \/ /\ Acquire("charData")
          /\ charData' = [k \in 0 .. (dwordsPerLine * imageHeight - 1) |-> Uninit]
          /\ fpos' = pixelDataOffset
          /\ i' = imageHeight - 1
          /\ pc' = "load"
          /\ UNCHANGED <<released, status, failure>>
       \/ /\ Release({"font", "bin"})
          /\ Return(1, "alloc_data")
          /\ UNCHANGED <<acquired, charData, fpos, i>>
    /\ UNCHANGED <<font, target, geometry, character, reads, writes, rows, out>>

\* The index the loading loop stores word j of row i at.
LoadIndex(row, j, dpl) == (row * dpl) + j

\* One iteration of for(i = imageHeight - 1; i >= 0; i--): the inner loop
\* reads dwordsPerLine words in file order and byte-swaps each in place.
LoadRow ==
    /\ pc = "load"
    /\ i >= 0
    /\ charData' =
         [k \in DOMAIN charData |->
            IF \E j \in 0 .. (dwordsPerLine - 1) : k = LoadIndex(i, j, dwordsPerLine)
              THEN LET j == CHOOSE jj \in 0 .. (dwordsPerLine - 1) :
                                  k = LoadIndex(i, jj, dwordsPerLine)
                   IN  swapEndian32(FreadWord(font, fpos + 4 * j))
              ELSE charData[k]]
    /\ fpos' = fpos + 4 * dwordsPerLine
    /\ i' = i - 1
    /\ pc' = IF i - 1 >= 0 THEN "load" ELSE "alloc_char"
    /\ UNCHANGED <<font, target, acquired, released, geometry, character,
                   reads, writes, rows, out, failure, status>>

\* Mutant: the failure path without free(charData).
AllocCharacterLeaks ==
    /\ pc = "alloc_char"
    /\ \/ /\ Acquire("character")
          /\ character' = [k \in 0 .. (charHeight - 1) |-> Uninit]
          /\ i' = 0
          /\ pc' = "glyphs"
          /\ UNCHANGED <<released, status, failure>>
       \/ /\ Release({"font", "bin"})
          /\ Return(1, "alloc_char")
          /\ UNCHANGED <<acquired, character, i>>
    /\ UNCHANGED <<font, target, fpos, geometry, charData, reads, writes,
                   rows, out>>

\* character = malloc(sizeof(uint32_t) * charHeight)
AllocCharacter ==
    /\ pc = "alloc_char"
    /\ \/ /\ Acquire("character")
          /\ character' = [k \in 0 .. (charHeight - 1) |-> Uninit]
          /\ i' = 0
          /\ pc' = "glyphs"
          /\ UNCHANGED <<released, status, failure>>
       \/ /\ Release({"font", "bin", "charData"})
          /\ Return(1, "alloc_char")
          /\ UNCHANGED <<acquired, character, i>>
    /\ UNCHANGED <<font, target, fpos, geometry, charData, reads, writes,
                   rows, out>>

\* for(j = 0; j < charHeight; j++) toBinary(character[j], charWidth), from j on
RECURSIVE WriteLines(_, _, _, _)
WriteLines(chr, ch, cw, j) ==
    IF j >= ch THEN <<>>
    ELSE toBinary(chr[j], cw) \o WriteLines(chr, ch, cw, j + 1)

\* One iteration of for(i = 0; i < 128; i++)
Glyph ==
    /\ pc = "glyphs"
    /\ i < NumGlyphs
    /\ LET r == assembleCharacter(charData, i, charWidth, charHeight,
                                  dwordsPerLine, character, target)
       IN  /\ character' = r.character
           /\ reads' = r.reads
           /\ writes' = r.writes
           /\ out' = out \o WriteLines(r.character, charHeight, charWidth, 0)
           /\ rows' = rows \o [j \in 1 .. charHeight |->
                                 [code |-> i, line |-> j - 1,
                                  value |-> r.character[j - 1]]]
    /\ i' = i + 1
    /\ pc' = IF i + 1 < NumGlyphs THEN "glyphs" ELSE "cleanup"
    /\ UNCHANGED <<font, target, acquired, released, fpos, geometry,
                   charData, failure, status>>

\* free(charData); free(character); fclose(font); fclose(bin); return 0
Cleanup ==
    /\ pc = "cleanup"
    /\ Release({"charData", "character", "font", "bin"})
    /\ Return(0, "none")
    /\ UNCHANGED <<font, target, acquired, fpos, geometry, i, charData,
                   character, reads, writes, rows, out>>

Next ==
    \/ OpenFont
    \/ OpenBin
    \/ ReadHeader
    \/ AllocCharData
    \/ LoadRow
    \/ AllocCharacter
    \/ Glyph
    \/ Cleanup

Spec == Init /\ [][Next]_vars

(* ------------------------ vocabulary of the claims -------------------- *)

\* assembleCharacter has run for glyph i - 1 and character holds its rows.
Assembled == pc \in {"glyphs", "cleanup"} /\ i >= 1

LastCode == i - 1

\* The image row of scanline r of glyph c.
ImageRow(c, r) == (IF c < GlyphsPerRow THEN 0 ELSE charHeight) + r

\* The image column of pixel p of glyph c.
ImageCol(c, p) == ((c % GlyphsPerRow) * charWidth) + p

\* The pixel at column x of image row y of the buffer: bit 31 - (x mod 32)
\* of word x / 32 of that row.
Pixel(x, y) == (31 - (x % 32)) \in charData[(y * dwordsPerLine) + (x \div 32)]

\* The word and the in-word offset (from the most significant bit) of the
\* first pixel of scanline r of glyph c.
GlyphWord(c, r) == (ImageRow(c, r) * dwordsPerLine) + (ImageCol(c, 0) \div 32)

GlyphOffset(c) == ImageCol(c, 0) % 32

Straddles(c) == GlyphOffset(c) + charWidth > 32

Succeeded == pc = "exit" /\ status = 0

\* Line k (from 0) of the output stream when every line is w characters and
\* a terminator.
Line(k, w) == [t \in 1 .. (w + 1) |-> out[(k * (w + 1)) + t]]

\* The w characters '0'/'1' of the bits w-1 down to 0 of a value, and the
\* line terminator.
Digits(v, w) == [t \in 1 .. (w + 1) |->
                   IF t = w + 1 THEN "\n"
                   ELSE IF (w - t) \in v THEN "1" ELSE "0"]

(* ------------------------------- claims ------------------------------- *)

\* C1: round trip of assembleCharacter.  For every glyph c, scanline r and
\* pixel p, bit charWidth-1-p of character[r] is the buffer pixel at image
\* row (c < 64 ? 0 : charHeight) + r and image column (c mod 64)*charWidth + p,
\* for every width 1..32.  (Stated as claimed; it fails at charWidth = 32.)
C1_RoundTrip ==
    Assembled =>
      \A r \in 0 .. (charHeight - 1) : \A p \in 0 .. (charWidth - 1) :
        ((charWidth - 1 - p) \in character[r])
          <=> Pixel(ImageCol(LastCode, p), ImageRow(LastCode, r))

\* The round trip for the widths below 32, where no shift count reaches the
\* width of int (not a claim of its own: the part of C1 the code keeps).
RoundTripBelow32 == charWidth < 32 => C1_RoundTrip

C3_LoadedTopDown ==
    pc = "alloc_char" =>
      \A r \in 0 .. (imageHeight - 1) : \A j \in 0 .. (dwordsPerLine - 1) :
        LET pos == font.offset + (4 * ((r * dwordsPerLine) + j))
        IN  charData[((imageHeight - 1 - r) * dwordsPerLine) + j]
              = UNION {{(8 * (3 - k)) + b : b \in ByteBits(FileByte(font, pos + k))}
                         : k \in 0 .. 3}

C3_Witness ==
    /\ pc = "alloc_char"
    /\ imageHeight = 3
    /\ dwordsPerLine = 6
    /\ charData[0] # charData[12]
    /\ charData[0] # swapEndian32(charData[0])

\* C4: the exit status is 1 after each of the four failures, and then no
\* glyph line has been written; it is 0 exactly when none of them occurred
\* and all 128 glyphs have been written.
C4_ExitStatus ==
    pc = "exit" =>
      /\ status \in {0, 1}
      /\ failure # "none" => (status = 1 /\ out = <<>> /\ rows = <<>>)
      /\ status = 0 <=> (failure = "none" /\ i = 128
                           /\ Len(rows) = 128 * charHeight)

C4_Witness ==
    /\ pc = "exit"
    /\ failure = "alloc_char"
    /\ status = 1

\* C5: on every exit path every resource acquired has been released exactly
\* once when main returns, and nothing is released that was not acquired.
C5_Released ==
    /\ \A r \in Resources : released[r] <= acquired[r] /\ acquired[r] <= 1
    /\ pc = "exit" => \A r \in Resources : released[r] = acquired[r]

C5_Witness ==
    /\ pc = "exit"
    /\ failure = "alloc_char"
    /\ acquired = [r \in Resources |-> IF r = "character" THEN 0 ELSE 1]

C7_Concatenation ==
    (Assembled /\ Straddles(LastCode)) =>
      \A r \in 0 .. (charHeight - 1) :
        LET o  == GlyphOffset(LastCode)
            w  == GlyphWord(LastCode, r)
            hi == {(charWidth - 1) - p : p \in
                     {q \in 0 .. (charWidth - 1) :
                        q < 32 - o /\ (31 - o - q) \in charData[w]}}
            lo == {(charWidth - 1) - p : p \in
                     {q \in 0 .. (charWidth - 1) :
                        q >= 32 - o /\ (31 - (q - (32 - o))) \in charData[w + 1]}}
        IN  character[r] = hi \cup lo

C7_Witness ==
    /\ Assembled
    /\ Straddles(LastCode)
    /\ charWidth = 5
    /\ GlyphOffset(LastCode) = 30
    /\ charHeight = 2
    /\ \E r \in 0 .. 1 : character[r] \cap {0, 1} # {} /\ character[r] \cap {2, 3, 4} # {}

\* C8 as claimed: for charWidth = 32 the mask (1 << charWidth) - 1 keeps all
\* 32 bits, so each row value is the whole word of the glyph's scanline.
C8_FullWord ==
    (Assembled /\ charWidth = 32) =>
      \A r \in 0 .. (charHeight - 1) :
        character[r] = charData[GlyphWord(LastCode, r)]

\* C9: every index assembleCharacter reads from the pixel buffer lies in
\* 0..dwordsPerLine*imageHeight-1 and in the image row of the scanline it is
\* read for, and every index written in the row buffer lies in
\* 0..charHeight-1.
C9_InBounds ==
    Assembled =>
      /\ \A rd \in reads :
           /\ rd[2] \in 0 .. ((dwordsPerLine * imageHeight) - 1)
           /\ rd[2] \div dwordsPerLine = ImageRow(LastCode, rd[1])
      /\ writes \subseteq 0 .. (charHeight - 1)

C9_Witness ==
    /\ Assembled
    /\ LastCode >= 64
    /\ Straddles(LastCode)
    /\ imageHeight = 4
    /\ Cardinality(reads) = 2 * charHeight
    /\ writes = 0 .. (charHeight - 1)

\* The bit offset of scanline r of glyph c as the loop advances it.
RECURSIVE BitsAt(_, _)
BitsAt(c, r) ==
    IF r = 0 THEN FirstBit(c, charWidth, charHeight, dwordsPerLine)
    ELSE NextLine(BitsAt(c, r - 1), dwordsPerLine)

\* The row value of scanline r of glyph c when the test offset + charWidth > 32
\* is made at that scanline, as the specification describes the algorithm.
PerScanlineRow(c, r) ==
    LET bits == BitsAt(c, r)
    IN  IF OnBoundary(bits % WordBits, charWidth)
          THEN TwoWords(charData, bits \div WordBits, bits % WordBits,
                        charWidth, target)
          ELSE SingleWord(charData, bits \div WordBits, bits % WordBits,
                          charWidth, target)

\* C10: the in-word offset is the same at every scanline of a glyph, so the
\* decision made once before the loop equals the test offset + charWidth > 32
\* at every scanline, and the row values are those of the per-scanline
\* algorithm.
C10_DecisionOnce ==
    Assembled =>
      \A r \in 0 .. (charHeight - 1) :
        /\ BitsAt(LastCode, r) % WordBits = BitsAt(LastCode, 0) % WordBits
        /\ OnBoundary(BitsAt(LastCode, r) % WordBits, charWidth)
             = OnBoundary(BitsAt(LastCode, 0) % WordBits, charWidth)
        /\ character[r] = PerScanlineRow(LastCode, r)

C10_Witness ==
    /\ Assembled
    /\ charHeight = 2
    /\ charWidth = 7
    /\ Straddles(LastCode)
    /\ BitsAt(LastCode, 1) > BitsAt(LastCode, 0)
    /\ character[1] # character[0]

====
